---- MODULE Spec2Model ----
(***************************************************************************)
(* MCPWebSocketService (dashboard/src/services/MCPWebSocketService.ts):    *)
(* the JSON-RPC client of the dashboard.  One service instance, the        *)
(* WebSocket objects it has created, its request timers and reconnect      *)
(* timers, and the environment (the server, the network, the caller of the *)
(* public API) as nondeterministic inputs.  Of the caller, AppContent       *)
(* (dashboard/src/App.tsx), the two pieces of state that the promise of    *)
(* its connect() call drives are kept: isConnected and connectionError.    *)
(*                                                                         *)
(* Spec is the service under any caller; SpecLifecycle follows connects,   *)
(* closes and reconnect timers through a whole backoff sequence;           *)
(* SpecInbound feeds the service inbound data of any shape; SpecChart is   *)
(* the App's notification callbacks; SpecApp is the App's start-up and     *)
(* refreshes driving the service.                                          *)
(*                                                                         *)
(* The service runs on one JavaScript event loop, so every handler (a      *)
(* public method call, a socket event, a timer callback) is one atomic     *)
(* action.  Timers carry no clock here: a pending timer may fire at any    *)
(* later step, which includes every order real delays allow.               *)
(***************************************************************************)
EXTENDS Integers, Sequences, FiniteSets, TLC

VARIABLES
    ws,                 \* this.ws: 0 for null, else the index of a socket
    sockets,            \* every WebSocket the service created, in creation order
    requestId,          \* this.requestId
    pendingRequests,    \* this.pendingRequests: id -> promise (index into requests)
    subscriptions,      \* this.subscriptions: event name -> callback
    reconnectTimeout,   \* this.reconnectTimeout: 0 for null, else a timer handle
    reconnectAttempts,  \* this.reconnectAttempts
    timers,             \* every reconnect timer created by setTimeout, in order
    requests,           \* every promise returned by sendRequest, in call order
    sent,               \* every frame passed to ws.send, in order
    invoked,            \* the subscription callbacks invoked by the last step
    sinceOpen,          \* history: reconnect timers scheduled since the last open
    consecFailed,       \* history: reconnect attempts that failed since the last open
    connectCalls,       \* history: connect() calls made from outside the service
    userClosed,         \* history: disconnect() was called and connect() not since
    isConnected,        \* App.tsx: the isConnected state of AppContent
    connectionError,    \* App.tsx: the connectionError state of AppContent
    thrown,             \* what became of an exception raised in the last handleMessage
    currentStats,       \* App.tsx: the currentStats state of AppContent
    chartData,          \* App.tsx: the chartData state of AppContent
    alerts,             \* App.tsx: the alerts state of AppContent
    updates,            \* history: system_stats notifications handled by the App
    startup,            \* App.tsx: where connectToServer / loadInitialData stands
    awaited,            \* the request connectToServer / loadInitialData awaits
    refreshes,          \* the requests made by handleProcessesRefresh
    handled,            \* the refreshes whose await has returned
    processes,          \* App.tsx: the processes state: the request whose result it is
    logs                \* App.tsx: the logs state: the request whose result it is

vars == << ws, sockets, requestId, pendingRequests, subscriptions,
           reconnectTimeout, reconnectAttempts, timers, requests, sent,
           invoked, sinceOpen, consecFailed, connectCalls, userClosed,
           isConnected, connectionError, thrown, currentStats, chartData,
           alerts, updates, startup, awaited, refreshes, handled, processes,
           logs >>

\* The state of the service and the history kept about it.
serviceVars == << ws, sockets, requestId, pendingRequests, subscriptions,
                  reconnectTimeout, reconnectAttempts, timers, requests, sent,
                  invoked, sinceOpen, consecFailed, connectCalls, userClosed >>

\* The state of AppContent that the connection drives.
appVars == << isConnected, connectionError >>

\* The state of AppContent that its notification callbacks write.
chartVars == << currentStats, chartData, alerts, updates >>

\* The state of AppContent that its start-up and its refreshes write.
flowVars == << startup, awaited, refreshes, handled, processes, logs >>

\* The state that the actions of Spec leave alone.
outerVars == << thrown, chartVars, flowVars >>

(***************************************************************************)
(* Bounds of the model                                                     *)
(***************************************************************************)
MaxSockets == 2        \* WebSocket objects created in one behaviour
MaxRequests == 2       \* sendRequest calls in one behaviour
MaxConnectCalls == 2   \* connect() calls made from outside the service
MaxChainSockets == 8   \* WebSocket objects created in one behaviour of SpecLifecycle
MaxInboundSockets == 1 \* WebSocket objects created in one behaviour of SpecInbound
MaxUpdates == 52       \* system_stats notifications in one behaviour of SpecChart
MaxRefreshes == 2      \* handleProcessesRefresh calls in one behaviour of SpecApp
MaxAppSockets == 2     \* WebSocket objects created in one behaviour of SpecApp

(***************************************************************************)
(* Program constants                                                       *)
(***************************************************************************)
maxReconnectAttempts == 5
BaseDelayMs == 1000
MaxDelayMs == 30000

NoId == -1                       \* a frame without an "id" member
NoMethod == "none"               \* a frame without a "method" member
NoError == "none"                \* a frame without an "error" member
NoConnectionError == "null"      \* App.tsx: connectionError is null
NoStats == "null"                \* App.tsx: currentStats is null
NoList == 0                      \* App.tsx: processes / logs is the initial []
ChartWindow == 50                \* App.tsx: newData.slice(-50)
ConnectionErrorText == "Failed to connect to MCP server"
\* The events a caller subscribes to (the App uses these two of the three).
Events == {"system_stats", "alerts"}
Results == {"r"}                 \* values of a frame's "result" member
Params == {"p"}                  \* values of a frame's "params" member
ErrorMessages == {"boom"}

\* Methods of the public API that only forward to sendRequest (getProcesses
\* and ping stand for the five of them: sendRequest never reads the name).
ApiMethods == {"get_processes", "ping"}

SubscribeMethod(e) == "subscribe_" \o e
UnsubscribeMethod(e) == "unsubscribe_" \o e

\* The inbound frames the server may send: every combination of members.
Frames ==
    [id : {NoId} \cup (0 .. MaxRequests),
     error : {NoError} \cup ErrorMessages,
     result : Results,
     method : {NoMethod, "unknown_event"} \cup Events,
     params : Params]

Min(a, b) == IF a <= b THEN a ELSE b

RECURSIVE Pow2(_)
Pow2(n) == IF n = 0 THEN 1 ELSE 2 * Pow2(n - 1)

\* Map.delete
MapDelete(m, k) == [x \in DOMAIN m \ {k} |-> m[x]]
\* Map.set
MapSet(m, k, v) == [x \in DOMAIN m \cup {k} |-> IF x = k THEN v ELSE m[x]]
EmptyMap == [x \in {} |-> 0]

SocketIds == 1 .. Len(sockets)
TimerIds == 1 .. Len(timers)
RequestIds == 1 .. Len(requests)

Init ==
    /\ ws = 0
    /\ sockets = << >>
    /\ requestId = 0
    /\ pendingRequests = EmptyMap
    /\ subscriptions = EmptyMap
    /\ reconnectTimeout = 0
    /\ reconnectAttempts = 0
    /\ timers = << >>
    /\ requests = << >>
    /\ sent = << >>
    /\ invoked = << >>
    /\ sinceOpen = 0
    /\ consecFailed = 0
    /\ connectCalls = 0
    /\ userClosed = FALSE
    /\ isConnected = FALSE
    /\ connectionError = NoConnectionError
    /\ thrown = "none"
    /\ currentStats = NoStats
    /\ chartData = << >>
    /\ alerts = << >>
    /\ updates = 0
    /\ startup = "idle"
    /\ awaited = 0
    /\ refreshes = {}
    /\ handled = {}
    /\ processes = NoList
    /\ logs = NoList

(***************************************************************************)
(* Promises.  resolve/reject of a settled promise change nothing but are   *)
(* counted.                                                                *)
(***************************************************************************)
Settle(reqs, r, st, why, val, by) ==
    [reqs EXCEPT ![r] =
        IF @.state = "pending"
        THEN [@ EXCEPT !.state = st, !.reason = why, !.value = val,
                       !.by = by, !.calls = @ + 1]
        ELSE [@ EXCEPT !.calls = @ + 1]]

(***************************************************************************)
(* connect(): a new WebSocket replaces this.ws; the old one is neither     *)
(* closed nor detached.                                                    *)
(***************************************************************************)
connect(origin) ==
    /\ sockets' = Append(sockets, [readyState |-> "CONNECTING",
                                   origin |-> origin,
                                   promise |-> "pending"])
    /\ ws' = Len(sockets) + 1

\* A timer that has fired or was cleared: what is left of it.
DoneTimer(how) == [state |-> how, delay |-> 0, k |-> 0]

\* The delay handleReconnect computes, from the counter it has just incremented.
ReconnectDelay(attempts) == Min(BaseDelayMs * Pow2(attempts), MaxDelayMs)

\* Mutant of handleReconnect: the counter is not compared with the maximum.
handleReconnect_NoLimit ==
    /\ reconnectAttempts' = reconnectAttempts + 1
    /\ timers' = Append(timers,
           [state |-> "pending",
            delay |-> ReconnectDelay(reconnectAttempts + 1),
            k |-> sinceOpen])
    /\ reconnectTimeout' = Len(timers) + 1
    /\ sinceOpen' = sinceOpen + 1

\* handleReconnect(): the onclose handler of every socket.
handleReconnect ==
    IF reconnectAttempts < maxReconnectAttempts
    THEN /\ reconnectAttempts' = reconnectAttempts + 1
         /\ timers' = Append(timers,
                [state |-> "pending",
                 delay |-> ReconnectDelay(reconnectAttempts + 1),
                 k |-> sinceOpen])
         /\ reconnectTimeout' = Len(timers) + 1
         /\ sinceOpen' = sinceOpen + 1
    ELSE UNCHANGED << reconnectAttempts, timers, reconnectTimeout, sinceOpen >>

\* Mutant of ResponseTarget: a response settles the oldest pending request,
\* whatever its id (correlation by arrival order).
ResponseTarget_OldestPending(f) ==
    IF f.id # NoId /\ f.id # 0 /\ DOMAIN pendingRequests # {}
    THEN {CHOOSE i \in DOMAIN pendingRequests :
             \A j \in DOMAIN pendingRequests : i <= j}
    ELSE {}

\* The pending promise a frame settles: message.id && pendingRequests.has(message.id)
ResponseTarget(f) ==
    IF f.id # NoId /\ f.id # 0 /\ f.id \in DOMAIN pendingRequests
    THEN {f.id}
    ELSE {}

\* Mutant of PendingAfter: the entry of a settled request is not deleted.
PendingAfter_NoDelete(f) == pendingRequests

\* pendingRequests after a frame: this.pendingRequests.delete(message.id)
PendingAfter(f) ==
    [x \in DOMAIN pendingRequests \ ResponseTarget(f) |-> pendingRequests[x]]

\* Mutant of NotificationTarget: the callback is passed message.result.
NotificationTarget_PassesResult(f) ==
    IF f.method # NoMethod /\ f.method \in DOMAIN subscriptions
    THEN << [cb |-> subscriptions[f.method], event |-> f.method,
             params |-> f.result] >>
    ELSE << >>

\* The callbacks a frame reaches: message.method && subscriptions.has(message.method)
NotificationTarget(f) ==
    IF f.method # NoMethod /\ f.method \in DOMAIN subscriptions
    THEN << [cb |-> subscriptions[f.method], event |-> f.method,
             params |-> f.params] >>
    ELSE << >>

\* Mutant of handleMessage: an error response rejects every pending request
\* and empties pendingRequests.
handleMessage_ErrorRejectsAll(f) ==
    /\ invoked' = NotificationTarget(f)
    /\ pendingRequests' =
          IF ResponseTarget(f) # {} /\ f.error # NoError
          THEN EmptyMap ELSE PendingAfter(f)
    /\ requests' =
          IF ResponseTarget(f) = {}
          THEN requests
          ELSE IF f.error # NoError
               THEN [r \in RequestIds |->
                       IF requests[r].state = "pending"
                       THEN [requests[r] EXCEPT !.state = "rejected",
                                                !.reason = "error",
                                                !.value = f.error,
                                                !.by = f.id, !.calls = @ + 1]
                       ELSE requests[r]]
               ELSE Settle(requests, pendingRequests[f.id], "resolved",
                           "result", f.result, f.id)

\* handleMessage(data) for a frame that parses to an object: the response
\* part and the notification part both run on every frame.
handleMessage(f) ==
    /\ invoked' = NotificationTarget(f)
    /\ pendingRequests' = PendingAfter(f)
    /\ requests' =
          IF ResponseTarget(f) = {}
          THEN requests
          ELSE LET r == pendingRequests[CHOOSE i \in ResponseTarget(f) : TRUE]
               IN  IF f.error # NoError
                   THEN Settle(requests, r, "rejected", "error", f.error, f.id)
                   ELSE Settle(requests, r, "resolved", "result", f.result, f.id)

\* Mutant of NextRequestId: ids are recycled from a pool of one.
NextRequestId_Recycled == IF requestId >= 1 THEN 1 ELSE requestId + 1

\* The id sendRequest assigns: ++this.requestId
NextRequestId == requestId + 1

\* Mutant of sendRequest: the id is taken before the socket is tested.
sendRequest_ConsumesId(method) ==
    IF ws = 0 \/ sockets[ws].readyState # "OPEN"
    THEN /\ requestId' = NextRequestId
         /\ requests' = Append(requests,
                [id |-> 0, sock |-> 0, method |-> method, state |-> "rejected",
                 reason |-> "not_connected", value |-> "none", by |-> NoId,
                 calls |-> 1, timer |-> "none"])
         /\ UNCHANGED << pendingRequests, sent >>
    ELSE /\ requestId' = NextRequestId
         /\ requests' = Append(requests,
                [id |-> NextRequestId, sock |-> ws, method |-> method,
                 state |-> "pending", reason |-> "none", value |-> "none",
                 by |-> NoId, calls |-> 0, timer |-> "armed"])
         /\ pendingRequests' = MapSet(pendingRequests, NextRequestId,
                                      Len(requests) + 1)
         /\ sent' = Append(sent, [sock |-> ws, id |-> NextRequestId,
                                  method |-> method])

\* sendRequest(method)
sendRequest(method) ==
    IF ws = 0 \/ sockets[ws].readyState # "OPEN"
    THEN /\ requests' = Append(requests,
                [id |-> 0, sock |-> 0, method |-> method, state |-> "rejected",
                 reason |-> "not_connected", value |-> "none", by |-> NoId,
                 calls |-> 1, timer |-> "none"])
         /\ UNCHANGED << requestId, pendingRequests, sent >>
    ELSE /\ requestId' = NextRequestId
         /\ requests' = Append(requests,
                [id |-> NextRequestId, sock |-> ws, method |-> method,
                 state |-> "pending", reason |-> "none", value |-> "none",
                 by |-> NoId, calls |-> 0, timer |-> "armed"])
         /\ pendingRequests' = MapSet(pendingRequests, NextRequestId,
                                      Len(requests) + 1)
         /\ sent' = Append(sent, [sock |-> ws, id |-> NextRequestId,
                                  method |-> method])

(***************************************************************************)
(* AppContent (App.tsx): connectToServer awaits the promise of the         *)
(* connect() it called; the promise of a connect() called by a reconnect   *)
(* timer is awaited by nobody.                                             *)
(***************************************************************************)
\* The continuation of "await mcpService.connect()" when socket s opens.
connectToServer_resolved(s) ==
    IF sockets[s].origin = "external" /\ sockets[s].promise = "pending"
    THEN /\ isConnected' = TRUE
         /\ connectionError' = NoConnectionError
    ELSE UNCHANGED appVars

\* The catch block of connectToServer when socket s closes unopened.
connectToServer_rejected(s) ==
    IF sockets[s].origin = "external" /\ sockets[s].promise = "pending"
    THEN /\ connectionError' = ConnectionErrorText
         /\ isConnected' = FALSE
    ELSE UNCHANGED appVars

(***************************************************************************)
(* Actions: calls of the public API                                        *)
(***************************************************************************)
\* connect() called from outside (App's effect), while fewer than n sockets exist.
ConnectCall(n) ==
    /\ Len(sockets) < n
    /\ connectCalls < MaxConnectCalls
    /\ connect("external")
    /\ connectCalls' = connectCalls + 1
    /\ userClosed' = FALSE
    /\ invoked' = << >>
    /\ UNCHANGED << requestId, pendingRequests, subscriptions, reconnectTimeout,
                    reconnectAttempts, timers, requests, sent, sinceOpen,
                    consecFailed >>
    /\ UNCHANGED appVars
    /\ UNCHANGED outerVars

Connect == ConnectCall(MaxSockets)

\* Mutant of ApiRequest: the call drops the callbacks registered so far.
ApiRequest_DropsSubscriptions(method) ==
    /\ Len(requests) < MaxRequests
    /\ sendRequest(method)
    /\ subscriptions' = EmptyMap
    /\ invoked' = << >>
    /\ UNCHANGED << ws, sockets, reconnectTimeout, reconnectAttempts, timers,
                    sinceOpen, consecFailed, connectCalls, userClosed >>
    /\ UNCHANGED appVars
    /\ UNCHANGED outerVars

\* getSystemStats / getProcesses / getLogs / ping / getServerInfo
ApiRequest(method) ==
    /\ Len(requests) < MaxRequests
    /\ sendRequest(method)
    /\ invoked' = << >>
    /\ UNCHANGED << ws, sockets, subscriptions, reconnectTimeout,
                    reconnectAttempts, timers, sinceOpen, consecFailed,
                    connectCalls, userClosed >>
    /\ UNCHANGED appVars
    /\ UNCHANGED outerVars

\* Mutant of Registered: a callback already registered for the event is kept.
Registered_KeepsFirst(e, cb) ==
    IF e \in DOMAIN subscriptions THEN subscriptions ELSE MapSet(subscriptions, e, cb)

\* Mutant of Registered: the callback is registered only when the request
\* can be sent.
Registered_OnlyWhenOpen(e, cb) ==
    IF ws = 0 \/ sockets[ws].readyState # "OPEN"
    THEN subscriptions ELSE MapSet(subscriptions, e, cb)

\* The subscriptions map after this.subscriptions.set(event, callback)
Registered(e, cb) == MapSet(subscriptions, e, cb)

\* subscribeToSystemStats / subscribeToAlerts / subscribeToLogs
\* The callback passed in a call is named by the number of the call, so two
\* calls never pass the same function object.
Subscribe(e) ==
    /\ Len(requests) < MaxRequests
    /\ subscriptions' = Registered(e, Len(requests) + 1)
    /\ sendRequest(SubscribeMethod(e))
    /\ invoked' = << >>
    /\ UNCHANGED << ws, sockets, reconnectTimeout, reconnectAttempts, timers,
                    sinceOpen, consecFailed, connectCalls, userClosed >>
    /\ UNCHANGED appVars
    /\ UNCHANGED outerVars

\* Mutant of Unregistered: the callback stays registered (it would go only
\* once the server acknowledged the unsubscribe request).
Unregistered_Kept(e) == subscriptions

\* The subscriptions map after this.subscriptions.delete(event)
Unregistered(e) == MapDelete(subscriptions, e)

\* unsubscribeFromSystemStats / unsubscribeFromAlerts / unsubscribeFromLogs
Unsubscribe(e) ==
    /\ Len(requests) < MaxRequests
    /\ subscriptions' = Unregistered(e)
    /\ sendRequest(UnsubscribeMethod(e))
    /\ invoked' = << >>
    /\ UNCHANGED << ws, sockets, reconnectTimeout, reconnectAttempts, timers,
                    sinceOpen, consecFailed, connectCalls, userClosed >>
    /\ UNCHANGED appVars
    /\ UNCHANGED outerVars

\* disconnect()
Disconnect ==
    /\ IF reconnectTimeout # 0
       THEN /\ timers' = [timers EXCEPT ![reconnectTimeout] =
                            IF @.state = "pending"
                            THEN DoneTimer("cleared") ELSE @]
            /\ reconnectTimeout' = 0
       ELSE UNCHANGED << timers, reconnectTimeout >>
    /\ subscriptions' = EmptyMap
    /\ pendingRequests' = EmptyMap
    /\ IF ws # 0
       THEN /\ sockets' = [sockets EXCEPT ![ws] =
                             IF @.readyState \in {"CONNECTING", "OPEN"}
                             THEN [@ EXCEPT !.readyState = "CLOSING"] ELSE @]
            /\ ws' = 0
       ELSE UNCHANGED << sockets, ws >>
    /\ userClosed' = TRUE
    /\ invoked' = << >>
    /\ UNCHANGED << requestId, reconnectAttempts, requests, sent, sinceOpen,
                    consecFailed, connectCalls >>
    /\ UNCHANGED appVars
    /\ UNCHANGED outerVars

(***************************************************************************)
(* Actions: socket events and timers                                       *)
(***************************************************************************)
\* Mutant of AttemptsAfterOpen: onopen leaves the counter as it is.
AttemptsAfterOpen_Kept == reconnectAttempts

\* The counter after onopen: this.reconnectAttempts = 0
AttemptsAfterOpen == 0

\* ws.onopen
OnOpen(s) ==
    /\ sockets[s].readyState = "CONNECTING"
    /\ sockets' = [sockets EXCEPT ![s] =
                      [@ EXCEPT !.readyState = "OPEN", !.promise = "resolved"]]
    /\ reconnectAttempts' = AttemptsAfterOpen
    /\ sinceOpen' = 0
    /\ consecFailed' = 0
    /\ connectToServer_resolved(s)
    /\ UNCHANGED outerVars
    /\ invoked' = << >>
    /\ UNCHANGED << ws, requestId, pendingRequests, subscriptions,
                    reconnectTimeout, timers, requests, sent, connectCalls,
                    userClosed >>

\* ws.onmessage: the browser delivers frames of an OPEN socket only, whether
\* or not the socket is still this.ws.
OnMessage(s, f) ==
    /\ sockets[s].readyState = "OPEN"
    /\ handleMessage(f)
    /\ UNCHANGED << ws, sockets, requestId, subscriptions, reconnectTimeout,
                    reconnectAttempts, timers, sent, sinceOpen, consecFailed,
                    connectCalls, userClosed >>
    /\ UNCHANGED appVars
    /\ UNCHANGED outerVars

\* A closed socket fires no further event and its connect() promise is
\* settled (rejected by ws.onerror when it never opened): what is left of it.
ClosedSocket == [readyState |-> "CLOSED", origin |-> "none", promise |-> "settled"]

\* The socket closes: a socket that never opened gets ws.onerror first (the
\* connect() promise is rejected), then ws.onclose runs handleReconnect.
OnClose(s) ==
    /\ sockets[s].readyState # "CLOSED"
    /\ sockets' = [sockets EXCEPT ![s] = ClosedSocket]
    /\ handleReconnect
    /\ consecFailed' = IF sockets[s].origin = "timer" /\ sockets[s].promise = "pending"
                       THEN consecFailed + 1 ELSE consecFailed
    /\ connectToServer_rejected(s)
    /\ UNCHANGED outerVars
    /\ invoked' = << >>
    /\ UNCHANGED << ws, requestId, pendingRequests, subscriptions, requests,
                    sent, connectCalls, userClosed >>

\* The callback of the setTimeout in handleReconnect: this.connect()
TimerCall(t, n) ==
    /\ timers[t].state = "pending"
    /\ Len(sockets) < n
    /\ timers' = [timers EXCEPT ![t] = DoneTimer("fired")]
    /\ connect("timer")
    /\ invoked' = << >>
    /\ UNCHANGED << requestId, pendingRequests, subscriptions, reconnectTimeout,
                    reconnectAttempts, requests, sent, sinceOpen, consecFailed,
                    connectCalls, userClosed >>
    /\ UNCHANGED appVars
    /\ UNCHANGED outerVars

ReconnectTimer(t) == TimerCall(t, MaxSockets)

\* Mutant of RequestTimeout: the callback rejects the promise and leaves the
\* entry in pendingRequests.
RequestTimeout_KeepsEntry(r) ==
    /\ requests[r].timer = "armed"
    /\ requests' = IF requests[r].id \in DOMAIN pendingRequests
                   THEN [Settle(requests, r, "rejected", "timeout",
                                "Request timeout", NoId)
                            EXCEPT ![r].timer = "fired"]
                   ELSE [requests EXCEPT ![r].timer = "fired"]
    /\ invoked' = << >>
    /\ UNCHANGED << ws, sockets, requestId, pendingRequests, subscriptions,
                    reconnectTimeout, reconnectAttempts, timers, sent,
                    sinceOpen, consecFailed, connectCalls, userClosed >>
    /\ UNCHANGED appVars
    /\ UNCHANGED outerVars

\* The callback of the setTimeout in sendRequest
RequestTimeout(r) ==
    /\ requests[r].timer = "armed"
    /\ IF requests[r].id \in DOMAIN pendingRequests
       THEN /\ pendingRequests' = MapDelete(pendingRequests, requests[r].id)
            /\ requests' = [Settle(requests, r, "rejected", "timeout",
                                   "Request timeout", NoId)
                               EXCEPT ![r].timer = "fired"]
       ELSE /\ requests' = [requests EXCEPT ![r].timer = "fired"]
            /\ UNCHANGED pendingRequests
    /\ invoked' = << >>
    /\ UNCHANGED << ws, sockets, requestId, subscriptions, reconnectTimeout,
                    reconnectAttempts, timers, sent, sinceOpen, consecFailed,
                    connectCalls, userClosed >>
    /\ UNCHANGED appVars
    /\ UNCHANGED outerVars

Next ==
    \/ Connect
    \/ Disconnect
    \/ \E m \in ApiMethods : ApiRequest(m)
    \/ \E e \in Events : Subscribe(e)
    \/ \E e \in Events : Unsubscribe(e)
    \/ \E s \in SocketIds : OnOpen(s)
    \/ \E s \in SocketIds, f \in Frames : OnMessage(s, f)
    \/ \E s \in SocketIds : OnClose(s)
    \/ \E t \in TimerIds : ReconnectTimer(t)
    \/ \E r \in RequestIds : RequestTimeout(r)

Spec == Init /\ [][Next]_vars

(***************************************************************************)
(* The connection lifecycle alone, followed through a whole backoff        *)
(* sequence: the same service with a caller that only connects and         *)
(* disconnects.  No request is sent and no frame arrives, which leaves     *)
(* ws, sockets, the timers and reconnectAttempts exactly as in Spec.       *)
(***************************************************************************)
LifecycleConnect == ConnectCall(MaxChainSockets)

LifecycleTimer(t) == TimerCall(t, MaxChainSockets)

NextLifecycle ==
    \/ LifecycleConnect
    \/ Disconnect
    \/ \E s \in SocketIds : OnOpen(s)
    \/ \E s \in SocketIds : OnClose(s)
    \/ \E t \in TimerIds : LifecycleTimer(t)

SpecLifecycle == Init /\ [][NextLifecycle]_vars

(***************************************************************************)
(* Inbound data of any shape.  ws.onmessage passes event.data to           *)
(* handleMessage, whose whole body is one try block: JSON.parse throws on  *)
(* text that is no JSON, "message.id" throws on null, every other value    *)
(* that is no object has no id and no method, and a subscription callback  *)
(* may throw.  The catch block logs and returns.                           *)
(***************************************************************************)
\* What event.data parses to: an object with the members of a frame, or
\* something else (frame is then a placeholder nobody reads).
Unparsable == "unparsable"       \* JSON.parse throws SyntaxError
JsonNull == "null"               \* parses to null
JsonNumber == "number"           \* parses to a number (or a string, or a boolean)
JsonObject == "object"
NoFrame ==
    [id |-> NoId, error |-> NoError, result |-> "r", method |-> NoMethod,
     params |-> "p"]
InboundData ==
    {[kind |-> JsonObject, frame |-> f] : f \in Frames}
       \cup {[kind |-> k, frame |-> NoFrame] : k \in {Unparsable, JsonNull, JsonNumber}}

\* An exception is raised inside the try block of handleMessage.
Raises(d, throws) ==
    \/ d.kind = Unparsable
    \/ d.kind = JsonNull
    \/ d.kind = JsonObject /\ throws /\ NotificationTarget(d.frame) # << >>

\* Mutant of handleData: the catch block is missing, the exception leaves
\* handleMessage.
handleData_NoCatch(d, throws) ==
    /\ IF d.kind = JsonObject
       THEN handleMessage(d.frame)
       ELSE /\ invoked' = << >>
            /\ UNCHANGED << pendingRequests, requests >>
    /\ thrown' = IF Raises(d, throws) THEN "uncaught" ELSE "none"

\* handleMessage(data) for any data; throws says whether the callback the
\* frame reaches throws.
handleData(d, throws) ==
    /\ IF d.kind = JsonObject
       THEN handleMessage(d.frame)
       ELSE /\ invoked' = << >>
            /\ UNCHANGED << pendingRequests, requests >>
    /\ thrown' = IF Raises(d, throws) THEN "caught" ELSE "none"

\* ws.onmessage with any data
OnData(s, d, throws) ==
    /\ sockets[s].readyState = "OPEN"
    /\ throws => (d.kind = JsonObject /\ NotificationTarget(d.frame) # << >>)
    /\ handleData(d, throws)
    /\ UNCHANGED << ws, sockets, requestId, subscriptions, reconnectTimeout,
                    reconnectAttempts, timers, sent, sinceOpen, consecFailed,
                    connectCalls, userClosed >>
    /\ UNCHANGED appVars
    /\ UNCHANGED chartVars
    /\ UNCHANGED flowVars

InboundConnect == ConnectCall(MaxInboundSockets)

NextInbound ==
    \/ InboundConnect
    \/ \E m \in ApiMethods : ApiRequest(m)
    \/ \E e \in Events : Subscribe(e)
    \/ \E s \in SocketIds : OnOpen(s)
    \/ \E s \in SocketIds, d \in InboundData, throws \in BOOLEAN : OnData(s, d, throws)
    \/ \E s \in SocketIds : OnClose(s)
    \/ \E r \in RequestIds : RequestTimeout(r)

SpecInbound == Init /\ [][NextInbound]_vars

(***************************************************************************)
(* The notification callbacks of AppContent (App.tsx), which it registers  *)
(* with subscribeToSystemStats and subscribeToAlerts.  A point of the      *)
(* chart carries the clock reading of its update; the clock is the number  *)
(* of the update here, the values are what the notification carried.       *)
(***************************************************************************)
StatsValues == {"s"}             \* the cpu / memory figures of a notification
AlertLists == {<< >>, << "a" >>, << "a", "b" >>}

\* Mutant of SliceLast: the first n elements are kept.
SliceLast_KeepsFirst(q, n) == IF Len(q) <= n THEN q ELSE SubSeq(q, 1, n)

\* Array.prototype.slice(-n): the last n elements.
SliceLast(q, n) == IF Len(q) <= n THEN q ELSE SubSeq(q, Len(q) - n + 1, Len(q))

\* Array.prototype.filter((_, i) => i !== index), index counted from 1 here.
WithoutIndex(q, index) ==
    [i \in 1 .. Len(q) - 1 |-> IF i < index THEN q[i] ELSE q[i + 1]]

\* handleSystemStatsUpdate(stats)
handleSystemStatsUpdate(stats) ==
    /\ updates < MaxUpdates
    /\ currentStats' = stats
    /\ chartData' = SliceLast(Append(chartData,
                                     [time |-> updates + 1, cpu |-> stats,
                                      memory |-> stats]),
                              ChartWindow)
    /\ updates' = updates + 1
    /\ UNCHANGED << alerts, thrown >>
    /\ UNCHANGED serviceVars
    /\ UNCHANGED appVars
    /\ UNCHANGED flowVars

\* handleAlertsUpdate(alertData)
handleAlertsUpdate(list) ==
    /\ alerts' = list
    /\ UNCHANGED << currentStats, chartData, updates, thrown >>
    /\ UNCHANGED serviceVars
    /\ UNCHANGED appVars
    /\ UNCHANGED flowVars

\* handleDismissAlert(index)
handleDismissAlert(index) ==
    /\ index \in 1 .. Len(alerts)
    /\ alerts' = WithoutIndex(alerts, index)
    /\ UNCHANGED << currentStats, chartData, updates, thrown >>
    /\ UNCHANGED serviceVars
    /\ UNCHANGED appVars
    /\ UNCHANGED flowVars

NextChart ==
    \/ \E stats \in StatsValues : handleSystemStatsUpdate(stats)
    \/ \E list \in AlertLists : handleAlertsUpdate(list)
    \/ \E index \in 1 .. Len(alerts) : handleDismissAlert(index)

SpecChart == Init /\ [][NextChart]_vars

(***************************************************************************)
(* AppContent (App.tsx) driving the service: the effect that runs          *)
(* connectToServer, loadInitialData, and handleProcessesRefresh.  An await *)
(* returns in a microtask of the handler that settled the promise, so the  *)
(* continuation runs before any other event: while a continuation is due   *)
(* no other action is taken.                                               *)
(***************************************************************************)
\* The responses the server sends to the App's requests.
AppFrames ==
    [id : 1 .. requestId,
     error : {NoError} \cup ErrorMessages,
     result : Results,
     method : {NoMethod},
     params : Params]

\* A call of a service method from AppContent.
AppCall(method) ==
    /\ sendRequest(method)
    /\ invoked' = << >>
    /\ UNCHANGED << ws, sockets, reconnectTimeout, reconnectAttempts, timers,
                    sinceOpen, consecFailed, connectCalls, userClosed >>
    /\ UNCHANGED << thrown, chartVars >>

\* An await of AppContent has returned and its continuation has not run yet.
ContinuationDue ==
    \/ /\ startup = "connect"
       /\ isConnected \/ connectionError # NoConnectionError
    \/ /\ startup \in {"subscribe_system_stats", "subscribe_alerts",
                       "get_logs", "get_processes"}
       /\ requests[awaited].state # "pending"
    \/ \E r \in refreshes \ handled : requests[r].state # "pending"

\* The effect: connectToServer() up to "await mcpService.connect()"
AppMount ==
    /\ startup = "idle"
    /\ connect("external")
    /\ connectCalls' = connectCalls + 1
    /\ userClosed' = FALSE
    /\ invoked' = << >>
    /\ startup' = "connect"
    /\ UNCHANGED << requestId, pendingRequests, subscriptions, reconnectTimeout,
                    reconnectAttempts, timers, requests, sent, sinceOpen,
                    consecFailed >>
    /\ UNCHANGED << thrown, chartVars, appVars >>
    /\ UNCHANGED << awaited, refreshes, handled, processes, logs >>

\* The catch block of connectToServer
connectToServer_catch ==
    /\ connectionError' = ConnectionErrorText
    /\ isConnected' = FALSE
    /\ startup' = "failed"
    /\ UNCHANGED serviceVars
    /\ UNCHANGED << thrown, chartVars >>
    /\ UNCHANGED << awaited, refreshes, handled, processes, logs >>

\* connectToServer after "await mcpService.connect()": the state was set
\* when the promise settled; on success subscribeToSystemStats is called.
ContinueConnect ==
    /\ startup = "connect"
    /\ \/ /\ isConnected
          /\ subscriptions' = Registered("system_stats", Len(requests) + 1)
          /\ AppCall(SubscribeMethod("system_stats"))
          /\ startup' = "subscribe_system_stats"
          /\ awaited' = Len(requests) + 1
          /\ UNCHANGED appVars
          /\ UNCHANGED << refreshes, handled, processes, logs >>
       \/ /\ ~isConnected
          /\ connectionError # NoConnectionError
          /\ connectToServer_catch

\* connectToServer after "await mcpService.subscribeToSystemStats(...)"
ContinueSubscribeStats ==
    /\ startup = "subscribe_system_stats"
    /\ requests[awaited].state # "pending"
    /\ IF requests[awaited].state = "resolved"
       THEN /\ subscriptions' = Registered("alerts", Len(requests) + 1)
            /\ AppCall(SubscribeMethod("alerts"))
            /\ startup' = "subscribe_alerts"
            /\ awaited' = Len(requests) + 1
            /\ UNCHANGED appVars
            /\ UNCHANGED << refreshes, handled, processes, logs >>
       ELSE connectToServer_catch

\* connectToServer after "await mcpService.subscribeToAlerts(...)":
\* loadInitialData() is called and runs up to its first await.
ContinueSubscribeAlerts ==
    /\ startup = "subscribe_alerts"
    /\ requests[awaited].state # "pending"
    /\ IF requests[awaited].state = "resolved"
       THEN /\ AppCall("get_logs")
            /\ startup' = "get_logs"
            /\ awaited' = Len(requests) + 1
            /\ UNCHANGED subscriptions
            /\ UNCHANGED appVars
            /\ UNCHANGED << refreshes, handled, processes, logs >>
       ELSE connectToServer_catch

\* Mutant of loadInitialData_catch: a failed initial load is handled as
\* a failed connection.
loadInitialData_catch_AsConnectionError ==
    /\ connectionError' = ConnectionErrorText
    /\ isConnected' = FALSE
    /\ startup' = "load_failed"
    /\ UNCHANGED serviceVars
    /\ UNCHANGED << thrown, chartVars >>
    /\ UNCHANGED << awaited, refreshes, handled, processes, logs >>

\* The catch block of loadInitialData: the error is logged.
loadInitialData_catch ==
    /\ startup' = "load_failed"
    /\ UNCHANGED serviceVars
    /\ UNCHANGED << thrown, chartVars, appVars >>
    /\ UNCHANGED << awaited, refreshes, handled, processes, logs >>

\* loadInitialData after "await mcpService.getLogs(100)"
ContinueLogs ==
    /\ startup = "get_logs"
    /\ requests[awaited].state # "pending"
    /\ IF requests[awaited].state = "resolved"
       THEN /\ logs' = awaited
            /\ AppCall("get_processes")
            /\ startup' = "get_processes"
            /\ awaited' = Len(requests) + 1
            /\ UNCHANGED subscriptions
            /\ UNCHANGED appVars
            /\ UNCHANGED << refreshes, handled, processes >>
       ELSE loadInitialData_catch

\* loadInitialData after "await mcpService.getProcesses(10, 'cpu')"
ContinueProcesses ==
    /\ startup = "get_processes"
    /\ requests[awaited].state # "pending"
    /\ IF requests[awaited].state = "resolved"
       THEN /\ processes' = awaited
            /\ startup' = "done"
            /\ UNCHANGED serviceVars
            /\ UNCHANGED << thrown, chartVars, appVars >>
            /\ UNCHANGED << awaited, refreshes, handled, logs >>
       ELSE loadInitialData_catch

\* handleProcessesRefresh(sortBy, limit) up to its await; the panel is on
\* screen unless the connection-error page is.
Refresh ==
    /\ Cardinality(refreshes) < MaxRefreshes
    /\ connectionError = NoConnectionError
    /\ AppCall("get_processes")
    /\ refreshes' = refreshes \cup {Len(requests) + 1}
    /\ UNCHANGED subscriptions
    /\ UNCHANGED appVars
    /\ UNCHANGED << startup, awaited, handled, processes, logs >>

\* The processes state after the await of refresh r returned:
\* setProcesses(response.processes), or the catch block.
Displayed(r) == IF requests[r].state = "resolved" THEN r ELSE processes

\* handleProcessesRefresh after "await mcpService.getProcesses(limit, sortBy)"
ContinueRefresh(r) ==
    /\ r \in refreshes \ handled
    /\ requests[r].state # "pending"
    /\ processes' = Displayed(r)
    /\ handled' = handled \cup {r}
    /\ UNCHANGED serviceVars
    /\ UNCHANGED << thrown, chartVars, appVars >>
    /\ UNCHANGED << startup, awaited, refreshes, logs >>

AppTimer(t) == TimerCall(t, MaxAppSockets)

NextApp ==
    \/ ContinueConnect
    \/ ContinueSubscribeStats
    \/ ContinueSubscribeAlerts
    \/ ContinueLogs
    \/ ContinueProcesses
    \/ \E r \in RequestIds : ContinueRefresh(r)
    \/ ~ContinuationDue /\ AppMount
    \/ ~ContinuationDue /\ Refresh
    \/ ~ContinuationDue /\ \E s \in SocketIds : OnOpen(s)
    \/ ~ContinuationDue /\ \E s \in SocketIds, f \in AppFrames : OnMessage(s, f)
    \/ ~ContinuationDue /\ \E s \in SocketIds : OnClose(s)
    \/ ~ContinuationDue /\ \E t \in TimerIds : AppTimer(t)
    \/ ~ContinuationDue /\ \E r \in RequestIds : RequestTimeout(r)

SpecApp == Init /\ [][NextApp]_vars

(***************************************************************************)
(* Properties                                                              *)
(***************************************************************************)
SentRequests == {r \in RequestIds : requests[r].sock # 0}

\* A step in which connect() was called from outside the service.
ExternalConnectStep == connectCalls' # connectCalls

\* A step that scheduled a reconnect timer or created a WebSocket.
RetryStep == Len(timers') # Len(timers) \/ Len(sockets') # Len(sockets)

\* C1: a promise is settled by an inbound frame only when the frame's id is
\* the id of its request, whatever the order in which responses arrive.
C1_CorrelationById ==
    \A r \in RequestIds :
        requests[r].reason \in {"result", "error"} =>
            requests[r].by = requests[r].id

\* Two requests were pending together and the later one was answered first.
C1_Witness ==
    \E r1, r2 \in RequestIds :
        /\ r1 < r2
        /\ requests[r1].state = "pending"
        /\ requests[r1].id \in DOMAIN pendingRequests
        /\ requests[r2].reason = "result"

C2_Inv ==
    \A r \in RequestIds :
        (requests[r].timer = "fired" /\ requests[r].reason \notin {"result", "error"})
            => (requests[r].state = "rejected" /\ requests[r].reason = "timeout")

C2_Step ==
    \A s \in SocketIds, f \in Frames :
        (/\ OnMessage(s, f)
         /\ \E r \in RequestIds :
               requests[r].id = f.id /\ requests[r].timer = "fired"
                 /\ requests[r].reason \notin {"result", "error"})
            => UNCHANGED << requests, pendingRequests >>

\* C2: a request whose timeout fires before any matching response is
\* rejected with the timeout error, and a response with its id that arrives
\* later settles nothing.
C2_TimeoutThenIgnored == []C2_Inv /\ [][C2_Step]_vars

C3_Inv ==
    \A r \in RequestIds :
        /\ requests[r].calls <= 1
        /\ requests[r].state # "pending" =>
              \A i \in DOMAIN pendingRequests : pendingRequests[i] # r

C3_Step ==
    /\ \A r \in RequestIds :
          requests[r].state # "pending" =>
              [requests'[r] EXCEPT !.timer = requests[r].timer] = requests[r]
    /\ requests' # requests =>
          \A s \in SocketIds, f \in Frames :
              (OnMessage(s, f) /\ f.id \in DOMAIN pendingRequests) =>
                  LET r == pendingRequests[f.id]
                  IN  /\ f.id \notin DOMAIN pendingRequests'
                      /\ requests'[r].state =
                            IF f.error # NoError THEN "rejected" ELSE "resolved"
                      /\ requests'[r].value =
                            IF f.error # NoError THEN f.error ELSE f.result
    /\ \A r \in RequestIds :
          (RequestTimeout(r) /\ requests[r].id \in DOMAIN pendingRequests) =>
              /\ requests[r].id \notin DOMAIN pendingRequests'
              /\ requests'[r].state = "rejected"
              /\ requests'[r].reason = "timeout"

\* C3: resolve/reject of a request is called at most once; a matching result
\* resolves with message.result, a matching error rejects with its message,
\* the timeout rejects; the entry leaves pendingRequests in that step and a
\* settled request is never changed again.
C3_SettledOnce == []C3_Inv /\ [][C3_Step]_vars

\* A request was settled by a response and its timeout fired afterwards.
C3_Witness ==
    \E r \in RequestIds :
        /\ requests[r].reason \in {"result", "error"}
        /\ requests[r].timer = "fired"
        /\ requests[r].calls = 1

C4_Inv ==
    /\ \A r \in SentRequests : requests[r].id >= 1
    /\ \A r \in SentRequests :
          (\A q \in SentRequests : r <= q) => requests[r].id = 1
    /\ \A r1, r2 \in SentRequests :
          (r1 < r2 /\ requests[r1].sock = requests[r2].sock) =>
              requests[r1].id < requests[r2].id

C4_Step ==
    Len(requests') > Len(requests) =>
        LET n == requests'[Len(requests')]
        IN  n.sock # 0 => n.id \notin DOMAIN pendingRequests

\* C4: ids are at least 1, the first is 1, they increase strictly along the
\* requests of one connection, and an id still in pendingRequests is never
\* assigned again.
C4_IdsIncrease == []C4_Inv /\ [][C4_Step]_vars

\* Two requests were sent on the same connection.
C4_Witness ==
    \E r1, r2 \in SentRequests : r1 < r2 /\ requests[r1].sock = requests[r2].sock

\* The frames without id.
NotificationFrames == {f \in Frames : f.id = NoId}

C5_Step ==
    (sockets' = sockets /\ requests' = requests) =>
        \A f \in NotificationFrames :
            (\E s \in SocketIds : OnMessage(s, f)) =>
                IF f.method \in DOMAIN subscriptions
                THEN invoked' = << [cb |-> subscriptions[f.method],
                                    event |-> f.method, params |-> f.params] >>
                ELSE /\ invoked' = << >>
                     /\ UNCHANGED << pendingRequests, subscriptions, sockets, ws,
                                     reconnectAttempts, reconnectTimeout, timers,
                                     requests >>

\* C5: a frame without id invokes the callback registered for its method
\* exactly once, with the frame's params; when none is registered it changes
\* nothing.
C5_NotificationRouting == [][C5_Step]_vars

\* A notification reached a registered callback while no request had ever
\* been settled by a frame.
C5_Witness ==
    /\ Len(invoked) = 1
    /\ invoked[1].event \in DOMAIN subscriptions
    /\ \A r \in RequestIds : requests[r].reason \notin {"result", "error"}

\* C6: the k-th consecutive reconnect attempt since the last open
\* (k = 0, 1, 2, ...) waits min(1 s * 2^k, 30 s).
C6_BackoffDelays ==
    \A t \in TimerIds :
        timers[t].state = "pending" =>
            timers[t].delay = Min(BaseDelayMs * Pow2(timers[t].k), MaxDelayMs)

\* C7: once 5 consecutive reconnect attempts have failed, no step other than
\* a connect() from outside schedules a reconnect timer or creates a socket.
C7_StopsAfterMax ==
    [][(consecFailed >= maxReconnectAttempts /\ ~ExternalConnectStep)
          => ~RetryStep]_vars

\* C8: on the connection a reconnect opened, a subscribe request has been
\* sent for every event that still has a callback in subscriptions.
C8_ReplayOnReconnect ==
    \A s \in SocketIds :
        (sockets[s].origin = "timer" /\ sockets[s].readyState = "OPEN" /\ ws = s) =>
            \A e \in DOMAIN subscriptions :
                \E i \in 1 .. Len(sent) :
                    sent[i].sock = s /\ sent[i].method = SubscribeMethod(e)

\* C9: when a reconnect has succeeded, every request sent on a connection
\* that closed before is rejected, is out of pendingRequests, and its frame
\* was sent once only.
C9_PendingRejectedOnClose ==
    \A r \in SentRequests :
        (/\ sockets[requests[r].sock].readyState = "CLOSED"
         /\ \E s \in SocketIds :
               /\ s > requests[r].sock
               /\ sockets[s].origin = "timer"
               /\ sockets[s].readyState = "OPEN")
            => /\ requests[r].state # "pending"
               /\ requests[r].id \notin DOMAIN pendingRequests
               /\ Cardinality({i \in 1 .. Len(sent) :
                                  sent[i].id = requests[r].id}) = 1

\* C10: between disconnect() and the next connect() from outside, no
\* reconnect timer is scheduled and no socket is created.
C10_NoReconnectAfterDisconnect ==
    [][(userClosed /\ ~ExternalConnectStep) => ~RetryStep]_vars

\* Reconnection is exhausted: disconnect() was not called, the counter is at
\* its maximum, every socket the service created is closed and no reconnect
\* timer is pending, so no step of the service will create a socket again.
ReconnectExhausted ==
    /\ ~userClosed
    /\ reconnectAttempts >= maxReconnectAttempts
    /\ sockets # << >>
    /\ \A s \in SocketIds : sockets[s].readyState = "CLOSED"
    /\ \A t \in TimerIds : timers[t].state # "pending"

\* C11: once the reconnect attempts are exhausted the App's isConnected is
\* false: the transport is never down for good while the App shows Connected.
C11_LossSurfaced == ReconnectExhausted => ~isConnected

\* C12: an entry leaves pendingRequests only in a step that settles its
\* promise (matching response, matching error or timeout); nothing drops an
\* entry and leaves the promise pending, where no later step can settle it.
C12_LeavesOnlyBySettling ==
    [][\A i \in DOMAIN pendingRequests :
          i \notin DOMAIN pendingRequests' =>
              requests'[pendingRequests[i]].state # "pending"]_vars

\* The sockets that are connecting or open.  connect() assigns the four
\* handlers of every socket and nothing ever removes them, so each of these
\* feeds the instance.
LiveSockets == {s \in SocketIds : sockets[s].readyState \in {"CONNECTING", "OPEN"}}

\* C13: at most one WebSocket created by the instance is connecting or open
\* with its handlers feeding the instance.
C13_OneLiveConnection == Cardinality(LiveSockets) <= 1

C14_Inv ==
    /\ reconnectAttempts = sinceOpen
    /\ \A t \in TimerIds :
          (timers[t].state = "pending" /\ timers[t].k = 0) =>
              timers[t].delay = ReconnectDelay(1)

C14_Step ==
    /\ (\E s \in SocketIds : OnOpen(s)) => reconnectAttempts' = 0
    /\ (sinceOpen < maxReconnectAttempts /\ \E s \in SocketIds : OnClose(s)) =>
          /\ Len(timers') = Len(timers) + 1
          /\ timers'[Len(timers')].state = "pending"

\* C14: every open sets reconnectAttempts to 0, so the counter is the number
\* of reconnect timers scheduled since the last open: the first close after
\* an open waits the first delay of the sequence, and every close schedules
\* an attempt until maxReconnectAttempts were scheduled since that open.
C14_ResetOnOpen == []C14_Inv /\ [][C14_Step]_vars

\* A reconnect attempt opened after at least one failure, and the full
\* maxReconnectAttempts attempts were scheduled again after that open.
C14_Witness ==
    /\ sinceOpen = maxReconnectAttempts
    /\ reconnectAttempts = maxReconnectAttempts
    /\ Len(timers) > maxReconnectAttempts

\* The calls of subscribeToX made for event e, by call number.
SubscribeCalls(e) == {r \in RequestIds : requests[r].method = SubscribeMethod(e)}

C15_Inv ==
    /\ \A e \in DOMAIN subscriptions :
          /\ subscriptions[e] \in SubscribeCalls(e)
          /\ \A r \in SubscribeCalls(e) : r <= subscriptions[e]
    /\ Len(invoked) <= 1
    /\ \A i \in 1 .. Len(invoked) :
          /\ invoked[i].cb \in SubscribeCalls(invoked[i].event)
          /\ \A r \in SubscribeCalls(invoked[i].event) : r <= invoked[i].cb

C15_Step ==
    (invoked' = << >> /\ sockets' = sockets /\ subscriptions' = subscriptions
       /\ timers' = timers /\ sent' = sent) =>
        \A f \in {g \in Frames : g.method \in DOMAIN subscriptions} :
            ~ \E s \in SocketIds : OnMessage(s, f)

\* C15: however many times subscribeToX was called for an event, the one
\* callback registered for it is the one of the latest call, and a frame for
\* the event invokes that callback once: never none, never one per call.
C15_ResubscribeIdempotent == []C15_Inv /\ [][C15_Step]_vars

\* subscribeToX was called twice for one event and a notification for it
\* invoked the callback of the second call.
C15_Witness ==
    /\ Len(invoked) = 1
    /\ Cardinality(SubscribeCalls(invoked[1].event)) = 2
    /\ invoked[1].cb = 2

\* The calls of unsubscribeFromX made for event e, by call number.
UnsubscribeCalls(e) == {r \in RequestIds : requests[r].method = UnsubscribeMethod(e)}

\* C16: a frame for an event invokes a callback only if no unsubscribeFromX
\* for the event was called after the subscribeToX that registered the
\* callback, whatever became of the unsubscribe request.
C16_SilentAfterUnsubscribe ==
    \A i \in 1 .. Len(invoked) :
        \A u \in UnsubscribeCalls(invoked[i].event) : u < invoked[i].cb

\* An event was subscribed, then unsubscribed; the unsubscribe request failed
\* and a socket is open, so frames for the event still arrive.
C16_Witness ==
    \E e \in Events :
        /\ \E r \in SubscribeCalls(e), u \in UnsubscribeCalls(e) :
              r < u /\ requests[u].state = "rejected"
        /\ \E s \in SocketIds : sockets[s].readyState = "OPEN"
        /\ e \notin DOMAIN subscriptions

\* The lifecycle state of the service: Reconnecting while a reconnect timer
\* is pending or the socket a timer created is connecting, Connected while
\* this.ws is open, Connecting while the socket of a connect() from outside
\* is connecting, Disconnected otherwise.
Lifecycle ==
    IF \/ \E t \in TimerIds : timers[t].state = "pending"
       \/ ws # 0 /\ sockets[ws].readyState = "CONNECTING" /\ sockets[ws].origin = "timer"
    THEN "Reconnecting"
    ELSE IF ws # 0 /\ sockets[ws].readyState = "OPEN" THEN "Connected"
    ELSE IF ws # 0 /\ sockets[ws].readyState = "CONNECTING" THEN "Connecting"
    ELSE "Disconnected"

\* C17: Reconnecting is entered from Connected only: a connect() whose
\* socket closes without having opened does not start the reconnect loop.
C17_ReconnectOnlyFromConnected ==
    [][(Lifecycle' = "Reconnecting" /\ Lifecycle # "Reconnecting")
          => Lifecycle = "Connected"]_vars

\* The reconnect timers that were set and have neither fired nor been cleared.
PendingTimers == {t \in TimerIds : timers[t].state = "pending"}

\* C18: at most one reconnect timer is pending at any time, and a pending
\* timer is the one whose handle is in reconnectTimeout.
C18_OnePendingTimer ==
    /\ Cardinality(PendingTimers) <= 1
    /\ \A t \in PendingTimers : reconnectTimeout = t

C19_Step ==
    invoked' # << >> =>
        /\ requests' = requests
        /\ \A f \in Frames \ NotificationFrames :
              ~ \E s \in SocketIds : OnMessage(s, f)

\* C19: a step that invokes a subscription callback settles no request, and
\* it is not the handling of a frame that carries an id: a frame goes to the
\* pending request with its id or to one callback, never to both.
C19_OneConsumerPerFrame == [][C19_Step]_vars

\* The error responses: frames with an id and an error member.
ErrorResponses == {f \in Frames : f.id # NoId /\ f.error # NoError}

C20_Step ==
    (requests' # requests /\ sockets' = sockets /\ timers' = timers) =>
        \A f \in ErrorResponses :
            (f.id \in DOMAIN pendingRequests /\ \E s \in SocketIds : OnMessage(s, f)) =>
                LET r == pendingRequests[f.id]
                IN  /\ requests'[r].state = "rejected"
                    /\ requests'[r].value = f.error
                    /\ \A q \in RequestIds \ {r} : requests'[q] = requests[q]
                    /\ pendingRequests' = MapDelete(pendingRequests, f.id)
                    /\ UNCHANGED << ws, sockets, subscriptions, reconnectAttempts,
                                    reconnectTimeout, timers, requestId >>

\* C20: an error response with the id of a pending request rejects that
\* request with the error's message and removes its entry; every other
\* request and entry, the sockets, the subscriptions, the reconnect timers
\* and reconnectAttempts stay as they were.
C20_ErrorIsLocal == [][C20_Step]_vars

\* A request was rejected by an error response while another request is
\* still pending in the map, the socket is still open and a callback is
\* still registered.
C20_Witness ==
    \E r1, r2 \in SentRequests :
        /\ requests[r1].reason = "error"
        /\ requests[r2].state = "pending"
        /\ requests[r2].id \in DOMAIN pendingRequests
        /\ sockets[requests[r1].sock].readyState = "OPEN"
        /\ DOMAIN subscriptions # {}

\* The calls of the API methods that are no subscription request.
ApiCalls == {r \in RequestIds : requests[r].method \in ApiMethods}

C21_Step ==
    /\ (Len(requests') > Len(requests)
          /\ requests'[Len(requests')].method \in ApiMethods) =>
              subscriptions' = subscriptions
    /\ \A r \in ApiCalls :
          requests'[r] # requests[r] => subscriptions' = subscriptions
    /\ (requests' # requests /\ sockets' = sockets /\ timers' = timers) =>
          \A f \in {g \in Frames : g.error = NoError /\ g.id \in DOMAIN pendingRequests} :
              (pendingRequests[f.id] \in ApiCalls /\ \E s \in SocketIds : OnMessage(s, f)) =>
                  /\ requests'[pendingRequests[f.id]].state = "resolved"
                  /\ requests'[pendingRequests[f.id]].value = f.result

\* C21: calling ping (or another request that is no subscription request)
\* and settling it leave the subscriptions map as it was, and the response
\* with its id resolves it with the response's result whatever callbacks are
\* registered and whatever else the frame carries.
C21_PingIndependent == [][C21_Step]_vars

\* A ping-like request was resolved by its response while a callback was
\* registered whose own subscribe request was still unanswered.
C21_Witness ==
    \E r \in ApiCalls, q \in RequestIds :
        /\ requests[r].reason = "result"
        /\ requests[q].state = "pending"
        /\ \E e \in DOMAIN subscriptions : subscriptions[e] = q

\* C22: every entry of pendingRequests is the entry of a request whose own
\* timeout has not fired yet, so no entry outlives its 10 s timer.
C22_EntryGoneAfterTimeout ==
    \A i \in DOMAIN pendingRequests :
        /\ requests[pendingRequests[i]].id = i
        /\ requests[pendingRequests[i]].timer = "armed"

\* A request that was never answered and whose connection closed was
\* removed by its timeout while a later request is still in the map.
C22_Witness ==
    \E r \in SentRequests :
        /\ requests[r].reason = "timeout"
        /\ sockets[requests[r].sock].readyState = "CLOSED"
        /\ requests[r].id \notin DOMAIN pendingRequests
        /\ DOMAIN pendingRequests # {}

\* this.ws is absent or not OPEN: the test sendRequest starts with.
NotConnected == ws = 0 \/ sockets[ws].readyState # "OPEN"

C23_Step ==
    (NotConnected /\ Len(requests') > Len(requests)) =>
        LET n == requests'[Len(requests')]
        IN  /\ n.state = "rejected"
            /\ n.reason = "not_connected"
            /\ n.timer = "none"
            /\ UNCHANGED << requestId, pendingRequests, sent, ws, sockets,
                            timers, reconnectTimeout, reconnectAttempts >>

\* C23: sendRequest on a service whose socket is absent or not OPEN rejects
\* at once as not connected; no id is consumed, no entry is added to
\* pendingRequests, no frame is sent and no timeout timer is started.
C23_RejectsWhenNotConnected == [][C23_Step]_vars

\* After a request was sent on an open socket, a later call was rejected as
\* not connected while this.ws was null or not open.
C23_Witness ==
    \E r1, r2 \in RequestIds :
        /\ r1 < r2
        /\ requests[r1].sock # 0
        /\ requests[r2].reason = "not_connected"
        /\ requestId = 1

C24_Step ==
    \A s \in SocketIds, d \in InboundData, throws \in BOOLEAN :
        OnData(s, d, throws) =>
            /\ thrown' # "uncaught"
            /\ UNCHANGED << ws, sockets, subscriptions, timers, reconnectTimeout,
                            reconnectAttempts >>
            /\ IF d.kind = JsonObject /\ d.frame.id \in DOMAIN pendingRequests
               THEN /\ pendingRequests' = MapDelete(pendingRequests, d.frame.id)
                    /\ requests'[pendingRequests[d.frame.id]].state # "pending"
               ELSE UNCHANGED << pendingRequests, requests >>

\* C24: whatever arrives on the socket (text that is no JSON, null, a value
\* that is no object, a frame whose callback throws), no exception leaves
\* handleMessage, the socket and the reconnect state stay as they were, the
\* subscriptions are unchanged and pendingRequests loses at most the entry
\* of the request the frame settled.
C24_NoFrameBreaksClient == [][C24_Step]_vars

\* An exception was raised and caught while the socket was open, a request
\* was pending and a callback was registered; all three are still there.
C24_Witness ==
    /\ thrown = "caught"
    /\ \E s \in SocketIds : sockets[s].readyState = "OPEN"
    /\ DOMAIN pendingRequests # {}
    /\ DOMAIN subscriptions # {}

C25_Step ==
    Disconnect =>
        /\ subscriptions' = EmptyMap
        /\ pendingRequests' = EmptyMap
        /\ reconnectTimeout' = 0
        /\ \A t \in 1 .. Len(timers') : timers'[t].state # "pending"
        /\ ws' = 0
        /\ UNCHANGED << requestId, reconnectAttempts >>

\* C25: right after disconnect() the subscriptions map and pendingRequests
\* are empty, no reconnect timer is pending and reconnectTimeout is null,
\* ws is null (isConnected() is false, sendRequest rejects), and requestId
\* and reconnectAttempts are as before.
C25_AfterDisconnect == [][C25_Step]_vars

C26_Step ==
    /\ \A e \in Events :
          (Len(requests') > Len(requests)
             /\ requests'[Len(requests')].method = SubscribeMethod(e)) =>
                /\ e \in DOMAIN subscriptions'
                /\ subscriptions'[e] = Len(requests')
    /\ \A r \in RequestIds :
          (requests[r].state = "pending" /\ requests'[r].state = "rejected") =>
              subscriptions' = subscriptions

\* C26: subscribeToX registers the callback whether or not its request can
\* be sent, and no rejection of a request (not connected, error response,
\* timeout) removes a callback: a notification still reaches a callback
\* whose subscribe request was rejected.
C26_CallbackKeptOnFailure == [][C26_Step]_vars

\* A notification invoked a callback whose subscribe request was rejected.
C26_Witness ==
    /\ Len(invoked) = 1
    /\ requests[invoked[1].cb].method = SubscribeMethod(invoked[1].event)
    /\ requests[invoked[1].cb].state = "rejected"

C27_Inv == reconnectAttempts \in 0 .. maxReconnectAttempts

C27_Step ==
    reconnectAttempts' # reconnectAttempts =>
        \/ /\ \E s \in SocketIds : OnClose(s)
           /\ reconnectAttempts < maxReconnectAttempts
           /\ reconnectAttempts' = reconnectAttempts + 1
        \/ /\ \E s \in SocketIds : OnOpen(s)
           /\ reconnectAttempts' = 0

\* C27: reconnectAttempts is always between 0 and maxReconnectAttempts; it
\* changes only by 1 upwards in a close event that finds it below the
\* maximum, and to 0 in an open event.
C27_AttemptsBounded == []C27_Inv /\ [][C27_Step]_vars

\* A socket closed while the counter was at its maximum: the counter stayed
\* there and no timer was scheduled.
C27_Witness ==
    /\ ~userClosed
    /\ reconnectAttempts = maxReconnectAttempts
    /\ PendingTimers = {}
    /\ \A s \in SocketIds : sockets[s].readyState = "CLOSED"
    /\ Len(sockets) > maxReconnectAttempts

\* C28: chartData holds the points of the most recent min(n, 50) of the n
\* system_stats updates handled so far, in arrival order.
C28_ChartWindow ==
    /\ Len(chartData) = Min(updates, ChartWindow)
    /\ \A i \in 1 .. Len(chartData) :
          chartData[i].time = updates - Len(chartData) + i

\* More than 50 updates arrived: the window is full and the oldest points
\* were evicted.
C28_Witness ==
    /\ updates > ChartWindow
    /\ Len(chartData) = ChartWindow
    /\ chartData[1].time > 1

\* The getProcesses calls the App made, by call number.
ProcessCalls == {r \in RequestIds : requests[r].method = "get_processes"}

\* No getProcesses call of the App is still awaited.
ProcessCallsSettled ==
    /\ handled = refreshes
    /\ startup # "get_processes"
    /\ \A r \in ProcessCalls : requests[r].state # "pending"

\* C29: once every getProcesses call has settled, the list on screen is the
\* result of the call issued last (when that call got a result), whatever
\* the order in which the responses arrived.
C29_LatestRequestShown ==
    (ProcessCallsSettled /\ ProcessCalls # {}) =>
        LET last == CHOOSE r \in ProcessCalls : \A q \in ProcessCalls : q <= r
        IN  requests[last].state = "resolved" => processes = last

\* The calls of method m made by connectToServer / loadInitialData.
StartupCalls(m) == {r \in RequestIds \ refreshes : requests[r].method = m}

\* The call of m was answered with a result.
Acknowledged(m) == \E r \in StartupCalls(m) : requests[r].reason = "result"

\* The call of m was rejected and the catch block has run.
StartupFailed(m) ==
    /\ ~ContinuationDue
    /\ \E r \in StartupCalls(m) : requests[r].state = "rejected"

InConnectionError == ~isConnected /\ connectionError # NoConnectionError

\* The order of the start-up steps, and what a failed connect() or
\* subscribe step leads to.
StartupSequenced ==
    /\ \A r \in StartupCalls(SubscribeMethod("system_stats")) : requests[r].sock # 0
    /\ StartupCalls(SubscribeMethod("alerts")) # {} =>
          Acknowledged(SubscribeMethod("system_stats"))
    /\ StartupCalls("get_logs") # {} =>
          /\ Acknowledged(SubscribeMethod("system_stats"))
          /\ Acknowledged(SubscribeMethod("alerts"))
    /\ StartupCalls("get_processes") # {} =>
          /\ Acknowledged(SubscribeMethod("system_stats"))
          /\ Acknowledged(SubscribeMethod("alerts"))
          /\ Acknowledged("get_logs")
    /\ \A m \in {SubscribeMethod("system_stats"), SubscribeMethod("alerts"),
                 "get_logs", "get_processes"} : Cardinality(StartupCalls(m)) <= 1
    /\ startup = "failed" => InConnectionError
    /\ (startup = "failed" /\ StartupCalls(SubscribeMethod("system_stats")) = {}) =>
          RequestIds \subseteq refreshes
    /\ StartupFailed(SubscribeMethod("system_stats")) =>
          /\ InConnectionError
          /\ StartupCalls(SubscribeMethod("alerts")) = {}
    /\ StartupFailed(SubscribeMethod("alerts")) =>
          /\ InConnectionError
          /\ StartupCalls("get_logs") = {}
    /\ StartupFailed("get_logs") => StartupCalls("get_processes") = {}

\* C30: the start-up steps are issued in order, each after the one before
\* was acknowledged; when any step fails (connect, a subscribe, an initial
\* load request) no later step is issued and the App is in its
\* connection-error state with isConnected false.
C30_StrictStartup ==
    /\ StartupSequenced
    /\ (StartupFailed("get_logs") \/ StartupFailed("get_processes")) =>
          InConnectionError

\* C30, amended: the same order and the same outcome of a failed connect or
\* subscribe step; a failed initial get_logs or get_processes is only
\* logged: no later step is issued and the App stays connected, without
\* connection error.
C30_StartupSequenced ==
    /\ StartupSequenced
    /\ (StartupFailed("get_logs") \/ StartupFailed("get_processes")) =>
          (isConnected /\ connectionError = NoConnectionError)

\* The initial get_logs request was rejected after both subscriptions were
\* acknowledged: get_processes was not issued and the App shows Connected.
C30_Witness ==
    /\ StartupFailed("get_logs")
    /\ startup = "load_failed"
    /\ isConnected

====
